---- MODULE Spec2Model ----
(***************************************************************************)
(* Live-Text-Scanner: the capture / extraction / answer pipeline of        *)
(* src/App.tsx (the component defined at lines 256-571) and the retrying   *)
(* client of src/services/geminiService.ts.                                *)
(*                                                                         *)
(* React state is read at the value of the latest render: every handler    *)
(* and every promise continuation runs to completion as one step and the   *)
(* component re-renders between steps, so a handler's closure holds the     *)
(* current state.  The <video> and <canvas> elements exist exactly while   *)
(* the camera view is rendered, i.e. while isCameraActive is true.         *)
(*                                                                         *)
(* A handler may be called in any state; its own guard decides whether it  *)
(* returns at once.  An awaited call settles in a later step, in any order *)
(* with the other pending calls and timers.                                *)
(*                                                                         *)
(* Strings that are trimmed or joined are sequences of characters; error   *)
(* messages are classified by the substrings they contain.  Each awaited   *)
(* extraction call carries a history flag, cancelled, set when             *)
(* handleCancelScan runs while the call is pending.                        *)
(***************************************************************************)
EXTENDS Integers, Sequences, FiniteSets, TLC

\* ------------------------------------------------------------------ bounds
\* extraction calls in flight plus cooldown timers pending, per coordinator
MaxInFlight == 2
\* elements of the transcript, counting the calls that may still append
MaxTranscript == 2
\* camera streams requested or left live without a holder
MaxStreams == 1
\* the clock advances in steps of TickMs milliseconds
TickMs == 2500

\* the largest maxRetries callGeminiWithRetry is called with
MaxRetriesArg == 2

\* ------------------------------------------------------- program constants
\* callGeminiWithRetry: maxRetries: number = 2, initialDelay: number = 2000
DefaultMaxRetries == 2
DefaultInitialDelay == 2000
\* setTimeout(() => setIsCoolingDown(false), 5000)
CooldownScan == 5000
\* setTimeout(() => setIsAnswerCoolingDown(false), 5000)
CooldownAnswer == 5000

ErrCamera == "Could not access the camera. Please grant permission and try again."
ErrExtractFailed == "Failed to extract text. Please try again."
ErrScanBusy == "API is busy. Please wait a moment before scanning again."
ErrAnswerFailed == "Could not get an answer. Please try again."
ErrAnswerBusy == "API is busy. Please wait a moment before trying again."
NoError == "null"

\* -------------------------------------------------------------- strings
Chars == {"a", "b", " "}
IsSpace(c) == c = " "

\* what an extraction may return: empty, whitespace only, text with and
\* without surrounding whitespace, text with inner whitespace
Texts == {<<>>, <<" ", " ">>, <<"a">>, <<" ", "a", " ", "b", " ">>}

RECURSIVE TrimStart(_)
TrimStart(s) ==
    IF s = <<>> THEN <<>>
    ELSE IF IsSpace(Head(s)) THEN TrimStart(Tail(s)) ELSE s

RECURSIVE TrimEnd(_)
TrimEnd(s) ==
    IF s = <<>> THEN <<>>
    ELSE IF IsSpace(s[Len(s)]) THEN TrimEnd(SubSeq(s, 1, Len(s) - 1)) ELSE s

\* String.prototype.trim
Trim(s) == TrimEnd(TrimStart(s))

\* Array.prototype.join(' ')
RECURSIVE JoinNoSeparator(_)
JoinNoSeparator(ts) ==
    IF ts = <<>> THEN <<>>
    ELSE ts[1] \o JoinNoSeparator(Tail(ts))

RECURSIVE Join(_)
Join(ts) ==
    IF ts = <<>> THEN <<>>
    ELSE IF Len(ts) = 1 THEN ts[1]
    ELSE ts[1] \o <<" ">> \o Join(Tail(ts))

\* the text of a response of the remote model (response.text ?? '')
Answers == {"", "42"}

\* a rejection of a remote call: whether the thrown value is an Error and
\* which of the classified substrings its message contains
Failure(isError, has429, hasExhausted) ==
    [isError |-> isError, has429 |-> has429, hasExhausted |-> hasExhausted]

Failures == {Failure(TRUE, FALSE, FALSE), Failure(TRUE, TRUE, FALSE),
             Failure(TRUE, FALSE, TRUE), Failure(FALSE, TRUE, FALSE)}

\* apiError instanceof Error && (message.includes('429') ||
\*                               message.includes('RESOURCE_EXHAUSTED'))
IsBusyError(f) == f.isError /\ (f.has429 \/ f.hasExhausted)

ScanErrorMessageOnly429(f) ==
    IF f.isError /\ f.has429 THEN ErrScanBusy ELSE ErrExtractFailed

ScanErrorMessage(f) == IF IsBusyError(f) THEN ErrScanBusy ELSE ErrExtractFailed

AnswerErrorMessage(f) == IF IsBusyError(f) THEN ErrAnswerBusy ELSE ErrAnswerFailed

\* ------------------------------------------------------------------ state
VARIABLES
    isCameraActive, scannedTexts, apiResponse, isScanning, isGettingAnswer,
    error, isCoolingDown, isAnswerCoolingDown,
    cancelScanRef,      \* cancelScanRef.current
    streamRef,          \* streamRef.current is a MediaStream
    videoSrc,           \* videoRef.current.srcObject is a MediaStream
    extractCalls,       \* extractTextFromImage calls awaited by handleScanFrame
    answerCalls,        \* getAnswerFromText calls awaited by handleGetAnswer
    scanTimers,         \* ms left of each pending setIsCoolingDown(false) timer
    answerTimers,       \* the same for setIsAnswerCoolingDown(false)
    pendingMedia,       \* getUserMedia requests awaited by startCamera
    leakedStreams,      \* acquired streams with live tracks that no ref holds
    mounted,            \* the App component is mounted
    \* the module geminiService
    ai,                 \* the module-level client ai is not null
    initCall,           \* the last initializeApi call: its key and what its caller got
    svcCall,            \* the exported function running: "none", "extract", "answer"
    \* history, kept by SpecTimerOrigin only
    scanTimerCancelled, \* for each timer of scanTimers: set by the completion
                        \* of a call whose scan had been cancelled
    \* history, kept by SpecResetHistory only
    inFlightAtReset,    \* for each call of extractCalls and of answerCalls:
                        \* it was in flight when the texts were last cleared
    \* one call of callGeminiWithRetry
    rPc,                \* "idle", "calling", "sleeping", "returned", "thrown"
    rMaxRetries, rInitialDelay,
    rAttempt,           \* the loop variable attempt
    rLog,               \* the outcome of every apiCall() made so far
    rDelays,            \* the delays of the backoff timers set so far
    rResult             \* the response returned or the error thrown

appVars == <<isCameraActive, scannedTexts, apiResponse, isScanning,
             isGettingAnswer, error, isCoolingDown, isAnswerCoolingDown,
             cancelScanRef, streamRef, videoSrc, extractCalls, answerCalls,
             scanTimers, answerTimers, pendingMedia, leakedStreams>>

retryVars == <<rPc, rMaxRetries, rInitialDelay, rAttempt, rLog, rDelays, rResult>>

svcVars == <<ai, initCall, svcCall>>

vars == <<appVars, retryVars, mounted, svcVars, scanTimerCancelled,
          inFlightAtReset>>

\* videoRef.current and canvasRef.current are the elements of the camera view
VideoMounted == isCameraActive

RemoveAt(s, i) == SubSeq(s, 1, i - 1) \o SubSeq(s, i + 1, Len(s))

InitApp ==
    /\ isCameraActive = FALSE
    /\ scannedTexts = <<>>
    /\ apiResponse = ""
    /\ isScanning = FALSE
    /\ isGettingAnswer = FALSE
    /\ error = NoError
    /\ isCoolingDown = FALSE
    /\ isAnswerCoolingDown = FALSE
    /\ cancelScanRef = FALSE
    /\ streamRef = FALSE
    /\ videoSrc = FALSE
    /\ extractCalls = <<>>
    /\ answerCalls = <<>>
    /\ scanTimers = <<>>
    /\ answerTimers = <<>>
    /\ pendingMedia = 0
    /\ leakedStreams = 0
    /\ mounted = TRUE

\* ------------------------------------------------------- Scan Coordinator
\* the guard of handleScanFrame: TRUE when the call returns at once
ScanFrameRejectedNoCooldownCheck ==
    isScanning \/ ~VideoMounted \/ ~isCameraActive

ScanFrameRejected ==
    isScanning \/ ~VideoMounted \/ ~isCameraActive \/ isCoolingDown

\* what handleCancelScan writes to cancelScanRef.current
CancelFlagOnCancel == TRUE

\* what an accepted handleScanFrame writes to cancelScanRef.current
CancelFlagOnScan == FALSE

HandleCancelScan ==
    /\ cancelScanRef' = CancelFlagOnCancel
    /\ isScanning' = FALSE
    /\ extractCalls' = [i \in 1..Len(extractCalls) |-> [cancelled |-> TRUE]]
    /\ UNCHANGED <<isCameraActive, scannedTexts, apiResponse, isGettingAnswer,
                   error, isCoolingDown, isAnswerCoolingDown, streamRef,
                   videoSrc, answerCalls, scanTimers, answerTimers,
                   pendingMedia, leakedStreams>>

\* canvas.getContext('2d') of a canvas that is only ever asked for a 2d
\* context is not null, so the branch of lines 361-363 is not taken
HandleScanFrame ==
    IF ScanFrameRejected
    THEN UNCHANGED appVars
    ELSE /\ Len(extractCalls) + Len(scanTimers) < MaxInFlight
         /\ Len(extractCalls) + Len(scannedTexts) < MaxTranscript
         /\ cancelScanRef' = CancelFlagOnScan
         /\ isScanning' = TRUE
         /\ error' = NoError
         /\ extractCalls' = Append(extractCalls, [cancelled |-> FALSE])
         /\ UNCHANGED <<isCameraActive, scannedTexts, apiResponse,
                        isGettingAnswer, isCoolingDown, isAnswerCoolingDown,
                        streamRef, videoSrc, answerCalls, scanTimers,
                        answerTimers, pendingMedia, leakedStreams>>

\* the finally block of handleScanFrame
ScanFinally ==
    /\ IF ~cancelScanRef
       THEN /\ isCoolingDown' = TRUE
            /\ scanTimers' = Append(scanTimers, CooldownScan)
       ELSE UNCHANGED <<isCoolingDown, scanTimers>>
    /\ isScanning' = FALSE

\* text && text.trim().length > 0
KeepsText(text) == text # <<>> /\ Len(Trim(text)) > 0

\* the element appended: text.trim()
AppendedTextUntrimmed(text) == text

AppendedText(text) == Trim(text)

\* await extractTextFromImage(...) resolves with text
ExtractResolve(i, text) ==
    /\ i \in 1..Len(extractCalls)
    /\ extractCalls' = RemoveAt(extractCalls, i)
    /\ IF cancelScanRef
       THEN UNCHANGED scannedTexts
       ELSE IF KeepsText(text)
            THEN scannedTexts' = Append(scannedTexts, AppendedText(text))
            ELSE UNCHANGED scannedTexts
    /\ ScanFinally
    /\ UNCHANGED <<isCameraActive, apiResponse, isGettingAnswer, error,
                   isAnswerCoolingDown, cancelScanRef, streamRef, videoSrc,
                   answerCalls, answerTimers, pendingMedia, leakedStreams>>

\* await extractTextFromImage(...) rejects with f
ExtractReject(i, f) ==
    /\ i \in 1..Len(extractCalls)
    /\ extractCalls' = RemoveAt(extractCalls, i)
    /\ IF cancelScanRef
       THEN UNCHANGED error
       ELSE error' = ScanErrorMessage(f)
    /\ ScanFinally
    /\ UNCHANGED <<isCameraActive, scannedTexts, apiResponse, isGettingAnswer,
                   isAnswerCoolingDown, cancelScanRef, streamRef, videoSrc,
                   answerCalls, answerTimers, pendingMedia, leakedStreams>>

\* setTimeout(() => setIsCoolingDown(false), 5000) expires
ScanTimerFireKeepsCooldown ==
    /\ scanTimers # <<>>
    /\ Head(scanTimers) = 0
    /\ scanTimers' = Tail(scanTimers)
    /\ isCoolingDown' = isCoolingDown
    /\ UNCHANGED <<isCameraActive, scannedTexts, apiResponse, isScanning,
                   isGettingAnswer, error, isAnswerCoolingDown, cancelScanRef,
                   streamRef, videoSrc, extractCalls, answerCalls,
                   answerTimers, pendingMedia, leakedStreams>>

ScanTimerFire ==
    /\ scanTimers # <<>>
    /\ Head(scanTimers) = 0
    /\ scanTimers' = Tail(scanTimers)
    /\ isCoolingDown' = FALSE
    /\ UNCHANGED <<isCameraActive, scannedTexts, apiResponse, isScanning,
                   isGettingAnswer, error, isAnswerCoolingDown, cancelScanRef,
                   streamRef, videoSrc, extractCalls, answerCalls,
                   answerTimers, pendingMedia, leakedStreams>>

\* ----------------------------------------------------- Answer Coordinator
\* the guard of handleGetAnswer: TRUE when the call returns at once
GetAnswerRejectedNoEmptyCheck ==
    isGettingAnswer \/ isAnswerCoolingDown

GetAnswerRejectedNoBusyCheck ==
    Len(scannedTexts) = 0 \/ isAnswerCoolingDown

GetAnswerRejectedSharedCooldown ==
    Len(scannedTexts) = 0 \/ isGettingAnswer \/ isAnswerCoolingDown \/ isCoolingDown

GetAnswerRejected ==
    Len(scannedTexts) = 0 \/ isGettingAnswer \/ isAnswerCoolingDown

HandleGetAnswerKeepsResponse ==
    IF GetAnswerRejected
    THEN UNCHANGED appVars
    ELSE /\ Len(answerCalls) + Len(answerTimers) < MaxInFlight
         /\ isGettingAnswer' = TRUE
         /\ error' = NoError
         /\ apiResponse' = apiResponse
         /\ answerCalls' = Append(answerCalls, [question |-> Join(scannedTexts)])
         /\ UNCHANGED <<isCameraActive, scannedTexts, isScanning,
                        isCoolingDown, isAnswerCoolingDown, cancelScanRef,
                        streamRef, videoSrc, extractCalls, scanTimers,
                        answerTimers, pendingMedia, leakedStreams>>

HandleGetAnswer ==
    IF GetAnswerRejected
    THEN UNCHANGED appVars
    ELSE /\ Len(answerCalls) + Len(answerTimers) < MaxInFlight
         /\ isGettingAnswer' = TRUE
         /\ error' = NoError
         /\ apiResponse' = ""
         /\ answerCalls' = Append(answerCalls, [question |-> Join(scannedTexts)])
         /\ UNCHANGED <<isCameraActive, scannedTexts, isScanning,
                        isCoolingDown, isAnswerCoolingDown, cancelScanRef,
                        streamRef, videoSrc, extractCalls, scanTimers,
                        answerTimers, pendingMedia, leakedStreams>>

\* the finally block of handleGetAnswer
AnswerFinallyNoCooldown ==
    /\ isGettingAnswer' = FALSE
    /\ UNCHANGED <<isAnswerCoolingDown, answerTimers>>

AnswerFinally ==
    /\ isGettingAnswer' = FALSE
    /\ isAnswerCoolingDown' = TRUE
    /\ answerTimers' = Append(answerTimers, CooldownAnswer)

\* await getAnswerFromText(...) resolves with answer
AnswerResolve(i, answer) ==
    /\ i \in 1..Len(answerCalls)
    /\ answerCalls' = RemoveAt(answerCalls, i)
    /\ apiResponse' = answer
    /\ AnswerFinally
    /\ UNCHANGED <<isCameraActive, scannedTexts, isScanning, error,
                   isCoolingDown, cancelScanRef, streamRef, videoSrc,
                   extractCalls, scanTimers, pendingMedia, leakedStreams>>

\* await getAnswerFromText(...) rejects with f
AnswerReject(i, f) ==
    /\ i \in 1..Len(answerCalls)
    /\ answerCalls' = RemoveAt(answerCalls, i)
    /\ error' = AnswerErrorMessage(f)
    /\ AnswerFinally
    /\ UNCHANGED <<isCameraActive, scannedTexts, apiResponse, isScanning,
                   isCoolingDown, cancelScanRef, streamRef, videoSrc,
                   extractCalls, scanTimers, pendingMedia, leakedStreams>>

\* setTimeout(() => setIsAnswerCoolingDown(false), 5000) expires
AnswerTimerFire ==
    /\ answerTimers # <<>>
    /\ Head(answerTimers) = 0
    /\ answerTimers' = Tail(answerTimers)
    /\ isAnswerCoolingDown' = FALSE
    /\ UNCHANGED <<isCameraActive, scannedTexts, apiResponse, isScanning,
                   isGettingAnswer, error, isCoolingDown, cancelScanRef,
                   streamRef, videoSrc, extractCalls, answerCalls, scanTimers,
                   pendingMedia, leakedStreams>>

\* ------------------------------------------------------------------- time
Decrement(ts) ==
    [i \in 1..Len(ts) |-> IF ts[i] > TickMs THEN ts[i] - TickMs ELSE 0]

\* TickMs pass; a timer that is due fires before more time passes
Tick ==
    /\ scanTimers # <<>> \/ answerTimers # <<>>
    /\ \A i \in 1..Len(scanTimers) : scanTimers[i] > 0
    /\ \A i \in 1..Len(answerTimers) : answerTimers[i] > 0
    /\ scanTimers' = Decrement(scanTimers)
    /\ answerTimers' = Decrement(answerTimers)
    /\ UNCHANGED <<isCameraActive, scannedTexts, apiResponse, isScanning,
                   isGettingAnswer, error, isCoolingDown, isAnswerCoolingDown,
                   cancelScanRef, streamRef, videoSrc, extractCalls,
                   answerCalls, pendingMedia, leakedStreams>>

\* ------------------------------------------------- transcript and camera
HandleClearTextsKeepsError ==
    /\ scannedTexts' = <<>>
    /\ apiResponse' = ""
    /\ UNCHANGED <<isCameraActive, isScanning, isGettingAnswer, isCoolingDown,
                   isAnswerCoolingDown, cancelScanRef, streamRef, videoSrc,
                   extractCalls, answerCalls, scanTimers, answerTimers,
                   pendingMedia, leakedStreams, error>>

HandleClearTexts ==
    /\ scannedTexts' = <<>>
    /\ apiResponse' = ""
    /\ error' = NoError
    /\ UNCHANGED <<isCameraActive, isScanning, isGettingAnswer, isCoolingDown,
                   isAnswerCoolingDown, cancelScanRef, streamRef, videoSrc,
                   extractCalls, answerCalls, scanTimers, answerTimers,
                   pendingMedia, leakedStreams>>

\* acquired streams whose tracks have not been stopped
LiveStreams == (IF streamRef THEN 1 ELSE 0) + leakedStreams

StopCameraDropsRef(ref, src, videoAttached) ==
    [streamRef |-> FALSE,
     videoSrc  |-> IF videoAttached THEN FALSE ELSE src,
     stopped   |-> 0]

\* stopCamera on streamRef.current = ref and videoRef.current.srcObject = src:
\* the refs it leaves and the number of streams whose tracks it stops
StopCamera(ref, src, videoAttached) ==
    [streamRef |-> FALSE,
     videoSrc  |-> IF videoAttached THEN FALSE ELSE src,
     stopped   |-> IF ref THEN 1 ELSE 0]

HandleToggleCameraCancels ==
    IF isCameraActive
    THEN \* setIsCameraActive(false); stopCamera()
         LET stop == StopCamera(streamRef, videoSrc, VideoMounted) IN
         /\ isCameraActive' = FALSE
         /\ cancelScanRef' = TRUE
         /\ streamRef' = stop.streamRef
         /\ videoSrc' = stop.videoSrc
         /\ leakedStreams' = LiveStreams - stop.stopped
         /\ UNCHANGED <<scannedTexts, apiResponse, isScanning, isGettingAnswer,
                        error, isCoolingDown, isAnswerCoolingDown,
                        extractCalls, answerCalls, scanTimers,
                        answerTimers, pendingMedia>>
    ELSE \* setIsCameraActive(true); handleClearTexts(); startCamera()
         /\ pendingMedia + leakedStreams < MaxStreams
         /\ isCameraActive' = TRUE
         /\ scannedTexts' = <<>>
         /\ apiResponse' = ""
         /\ error' = NoError
         /\ pendingMedia' = pendingMedia + 1
         /\ UNCHANGED <<isScanning, isGettingAnswer, isCoolingDown,
                        isAnswerCoolingDown, cancelScanRef, streamRef,
                        videoSrc, extractCalls, answerCalls, scanTimers,
                        answerTimers, leakedStreams>>

HandleToggleCamera ==
    IF isCameraActive
    THEN \* setIsCameraActive(false); stopCamera()
         LET stop == StopCamera(streamRef, videoSrc, VideoMounted) IN
         /\ isCameraActive' = FALSE
         /\ streamRef' = stop.streamRef
         /\ videoSrc' = stop.videoSrc
         /\ leakedStreams' = LiveStreams - stop.stopped
         /\ UNCHANGED <<scannedTexts, apiResponse, isScanning, isGettingAnswer,
                        error, isCoolingDown, isAnswerCoolingDown,
                        cancelScanRef, extractCalls, answerCalls, scanTimers,
                        answerTimers, pendingMedia>>
    ELSE \* setIsCameraActive(true); handleClearTexts(); startCamera()
         /\ pendingMedia + leakedStreams < MaxStreams
         /\ isCameraActive' = TRUE
         /\ scannedTexts' = <<>>
         /\ apiResponse' = ""
         /\ error' = NoError
         /\ pendingMedia' = pendingMedia + 1
         /\ UNCHANGED <<isScanning, isGettingAnswer, isCoolingDown,
                        isAnswerCoolingDown, cancelScanRef, streamRef,
                        videoSrc, extractCalls, answerCalls, scanTimers,
                        answerTimers, leakedStreams>>

\* await navigator.mediaDevices.getUserMedia(...) resolves with a stream
MediaResolve ==
    /\ pendingMedia > 0
    /\ pendingMedia' = pendingMedia - 1
    /\ leakedStreams' = IF streamRef THEN leakedStreams + 1 ELSE leakedStreams
    /\ streamRef' = TRUE
    /\ videoSrc' = IF VideoMounted THEN TRUE ELSE videoSrc
    /\ UNCHANGED <<isCameraActive, scannedTexts, apiResponse, isScanning,
                   isGettingAnswer, error, isCoolingDown, isAnswerCoolingDown,
                   cancelScanRef, extractCalls, answerCalls, scanTimers,
                   answerTimers>>

\* await navigator.mediaDevices.getUserMedia(...) rejects
MediaReject ==
    /\ pendingMedia > 0
    /\ pendingMedia' = pendingMedia - 1
    /\ error' = IF mounted THEN ErrCamera ELSE error
    /\ isCameraActive' = FALSE
    /\ videoSrc' = FALSE
    /\ UNCHANGED <<scannedTexts, apiResponse, isScanning, isGettingAnswer,
                   isCoolingDown, isAnswerCoolingDown, cancelScanRef,
                   streamRef, extractCalls, answerCalls, scanTimers,
                   answerTimers, leakedStreams>>

\* the component unmounts: the cleanup of the effect calls stopCamera, the
\* video element is removed and the state of the component is discarded, so
\* that the state updates of calls and timers still pending have no effect
Unmount ==
    LET stop == StopCamera(streamRef, videoSrc, FALSE) IN
    /\ mounted
    /\ mounted' = FALSE
    /\ streamRef' = stop.streamRef
    /\ leakedStreams' = LiveStreams - stop.stopped
    /\ videoSrc' = FALSE
    /\ isCameraActive' = FALSE
    /\ scannedTexts' = <<>>
    /\ apiResponse' = ""
    /\ isScanning' = FALSE
    /\ isGettingAnswer' = FALSE
    /\ error' = NoError
    /\ isCoolingDown' = FALSE
    /\ isAnswerCoolingDown' = FALSE
    /\ cancelScanRef' = FALSE
    /\ extractCalls' = <<>>
    /\ answerCalls' = <<>>
    /\ scanTimers' = <<>>
    /\ answerTimers' = <<>>
    /\ UNCHANGED pendingMedia

\* ------------------------------------------------- callGeminiWithRetry
RECURSIVE Pow2(_)
Pow2(n) == IF n = 0 THEN 1 ELSE 2 * Pow2(n - 1)

\* an outcome of apiCall(): a response, or an error described by the
\* classified substrings of its message (hasMessage: error.message is a
\* string).  id tells the outcomes of different attempts apart.  apiCall is
\* ai.models.generateContent, which rejects with an object, never with
\* null or undefined.
Outcome(ok, id, hasMessage, has429, hasExhausted, hasKey) ==
    [ok |-> ok, id |-> id, hasMessage |-> hasMessage, has429 |-> has429,
     hasExhausted |-> hasExhausted, hasKey |-> hasKey]

Response(id) == Outcome(TRUE, id, FALSE, FALSE, FALSE, FALSE)

ApiErrors(id) ==
    {Outcome(FALSE, id, FALSE, FALSE, FALSE, FALSE),
     Outcome(FALSE, id, TRUE, FALSE, FALSE, FALSE),
     Outcome(FALSE, id, TRUE, TRUE, FALSE, FALSE),
     Outcome(FALSE, id, TRUE, FALSE, TRUE, FALSE),
     Outcome(FALSE, id, TRUE, FALSE, FALSE, TRUE),
     Outcome(FALSE, id, TRUE, TRUE, FALSE, TRUE)}

\* new Error("Gemini API call failed after all retries.")
ErrAfterAllRetries == Outcome(FALSE, 0, TRUE, FALSE, FALSE, FALSE)

NoOutcome == Outcome(FALSE, 0, FALSE, FALSE, FALSE, FALSE)

\* error.message?.includes('429') || error.message?.includes('RESOURCE_EXHAUSTED')
IsRateLimitError(e) == e.hasMessage /\ (e.has429 \/ e.hasExhausted)

\* error.message?.includes('API key not valid')
IsInvalidKeyError(e) == e.hasMessage /\ e.hasKey

\* initialDelay * Math.pow(2, attempt)
BackoffDelayOffByOne(initialDelay, attempt) == initialDelay * Pow2(attempt + 1)

BackoffDelay(initialDelay, attempt) == initialDelay * Pow2(attempt)

\* the catch block: "throw" or "retry"
OnErrorRateFirst(e, attempt, maxRetries) ==
    IF IsRateLimitError(e)
    THEN IF attempt < maxRetries THEN "retry" ELSE "throw"
    ELSE "throw"

OnErrorRetryOnLast(e, attempt, maxRetries) ==
    IF IsInvalidKeyError(e) THEN "throw"
    ELSE IF IsRateLimitError(e)
         THEN IF attempt <= maxRetries THEN "retry" ELSE "throw"
         ELSE "throw"

OnErrorRetryAll(e, attempt, maxRetries) ==
    IF IsInvalidKeyError(e) THEN "throw"
    ELSE IF attempt < maxRetries THEN "retry" ELSE "throw"

OnError(e, attempt, maxRetries) ==
    IF IsInvalidKeyError(e) THEN "throw"
    ELSE IF IsRateLimitError(e)
         THEN IF attempt < maxRetries THEN "retry" ELSE "throw"
         ELSE "throw"

RetryIdle ==
    /\ rPc = "idle"
    /\ rMaxRetries = DefaultMaxRetries
    /\ rInitialDelay = DefaultInitialDelay
    /\ rAttempt = 0
    /\ rLog = <<>>
    /\ rDelays = <<>>
    /\ rResult = NoOutcome

\* the call: for (let attempt = 0; attempt <= maxRetries; ...)
RetryStart(maxRetries, initialDelay) ==
    /\ rMaxRetries = maxRetries
    /\ rInitialDelay = initialDelay
    /\ rAttempt = 0
    /\ rLog = <<>>
    /\ rDelays = <<>>
    /\ IF 0 <= maxRetries
       THEN rPc = "calling" /\ rResult = NoOutcome
       ELSE rPc = "thrown" /\ rResult = ErrAfterAllRetries

\* return await apiCall()
RetryAttemptOk ==
    /\ rPc = "calling"
    /\ rLog' = Append(rLog, Response(rAttempt + 1))
    /\ rResult' = Response(rAttempt + 1)
    /\ rPc' = "returned"
    /\ UNCHANGED <<rMaxRetries, rInitialDelay, rAttempt, rDelays>>

\* await apiCall() rejects with e
RetryAttemptFail(e) ==
    /\ rPc = "calling"
    /\ e \in ApiErrors(rAttempt + 1)
    /\ rLog' = Append(rLog, e)
    /\ IF OnError(e, rAttempt, rMaxRetries) = "retry"
       THEN /\ rPc' = "sleeping"
            /\ rDelays' = Append(rDelays, BackoffDelay(rInitialDelay, rAttempt))
            /\ UNCHANGED rResult
       ELSE /\ rPc' = "thrown"
            /\ rResult' = e
            /\ UNCHANGED rDelays
    /\ UNCHANGED <<rMaxRetries, rInitialDelay, rAttempt>>

\* the backoff timer expires: attempt++ and the loop condition
RetryBackoffElapsed ==
    /\ rPc = "sleeping"
    /\ rAttempt' = rAttempt + 1
    /\ IF rAttempt + 1 <= rMaxRetries
       THEN rPc' = "calling" /\ UNCHANGED rResult
       ELSE rPc' = "thrown" /\ rResult' = ErrAfterAllRetries
    /\ UNCHANGED <<rMaxRetries, rInitialDelay, rLog, rDelays>>

\* ------------------------------------------------------- geminiService
ApiKeys == {"", "key"}

NoInitCall == [apiKey |-> "none", outcome |-> "none"]

\* let ai = null, and no exported function running
ServiceIdle ==
    /\ ai = FALSE
    /\ initCall = NoInitCall
    /\ svcCall = "none"

\* new Error("API not initialized. Please set your API key first.")
ErrNotInitialized == Outcome(FALSE, -1, TRUE, FALSE, FALSE, FALSE)

\* ai.models of a null ai: the TypeError thrown inside apiCall()
ErrNullClient(id) == Outcome(FALSE, id, TRUE, FALSE, FALSE, FALSE)

\* initializeApi(apiKey): both branches return undefined to the caller
InitializeApi(apiKey) ==
    /\ ai' = (apiKey # "")
    /\ initCall' = [apiKey |-> apiKey, outcome |-> "returned"]
    /\ UNCHANGED <<svcCall, retryVars>>

\* extractTextFromImage / getAnswerFromText is called: the check of ai, then
\* callGeminiWithRetry(apiCall) with the default maxRetries and initialDelay
ServiceCall(fn) ==
    /\ svcCall = "none"
    /\ svcCall' = fn
    /\ rMaxRetries' = DefaultMaxRetries
    /\ rInitialDelay' = DefaultInitialDelay
    /\ rAttempt' = 0
    /\ rLog' = <<>>
    /\ rDelays' = <<>>
    /\ IF ~ai
       THEN rPc' = "thrown" /\ rResult' = ErrNotInitialized
       ELSE rPc' = "calling" /\ rResult' = NoOutcome
    /\ UNCHANGED <<ai, initCall>>

\* apiCall() of one attempt: ai.models.generateContent(...) on the ai of now
ServiceAttempt ==
    IF ai
    THEN \/ RetryAttemptOk
         \/ \E e \in ApiErrors(rAttempt + 1) : RetryAttemptFail(e)
    ELSE RetryAttemptFail(ErrNullClient(rAttempt + 1))

\* the exported function has returned response.text ?? '' or rethrown
ServiceSettled ==
    /\ svcCall # "none"
    /\ rPc \in {"returned", "thrown"}
    /\ svcCall' = "none"
    /\ rPc' = "idle"
    /\ rResult' = NoOutcome
    /\ UNCHANGED <<ai, initCall, rMaxRetries, rInitialDelay, rAttempt, rLog,
                   rDelays>>

\* ---------------------------------------------------------- specification
NoneInFlightAtReset == [extract |-> <<>>, answer |-> <<>>]

Init ==
    /\ InitApp
    /\ RetryIdle
    /\ ServiceIdle
    /\ scanTimerCancelled = <<>>
    /\ inFlightAtReset = NoneInFlightAtReset

Next ==
    \/ mounted /\ HandleScanFrame /\ UNCHANGED <<retryVars, mounted, svcVars,
                          scanTimerCancelled,
                          inFlightAtReset>>
    \/ mounted /\ HandleCancelScan /\ UNCHANGED <<retryVars, mounted, svcVars,
                          scanTimerCancelled,
                          inFlightAtReset>>
    \/ \E i \in 1..MaxInFlight, text \in Texts :
          ExtractResolve(i, text) /\ UNCHANGED <<retryVars, mounted, svcVars,
                          scanTimerCancelled,
                          inFlightAtReset>>
    \/ \E i \in 1..MaxInFlight, f \in Failures :
          ExtractReject(i, f) /\ UNCHANGED <<retryVars, mounted, svcVars,
                          scanTimerCancelled,
                          inFlightAtReset>>
    \/ ScanTimerFire /\ UNCHANGED <<retryVars, mounted, svcVars,
                          scanTimerCancelled,
                          inFlightAtReset>>
    \/ mounted /\ HandleGetAnswer /\ UNCHANGED <<retryVars, mounted, svcVars,
                          scanTimerCancelled,
                          inFlightAtReset>>
    \/ \E i \in 1..MaxInFlight, answer \in Answers :
          AnswerResolve(i, answer) /\ UNCHANGED <<retryVars, mounted, svcVars,
                          scanTimerCancelled,
                          inFlightAtReset>>
    \/ \E i \in 1..MaxInFlight, f \in Failures :
          AnswerReject(i, f) /\ UNCHANGED <<retryVars, mounted, svcVars,
                          scanTimerCancelled,
                          inFlightAtReset>>
    \/ AnswerTimerFire /\ UNCHANGED <<retryVars, mounted, svcVars,
                          scanTimerCancelled,
                          inFlightAtReset>>
    \/ Tick /\ UNCHANGED <<retryVars, mounted, svcVars,
                          scanTimerCancelled,
                          inFlightAtReset>>
    \/ mounted /\ HandleClearTexts /\ UNCHANGED <<retryVars, mounted, svcVars,
                          scanTimerCancelled,
                          inFlightAtReset>>
    \/ mounted /\ HandleToggleCamera /\ UNCHANGED <<retryVars, mounted, svcVars,
                          scanTimerCancelled,
                          inFlightAtReset>>
    \/ MediaResolve /\ UNCHANGED <<retryVars, mounted, svcVars,
                          scanTimerCancelled,
                          inFlightAtReset>>
    \/ MediaReject /\ UNCHANGED <<retryVars, mounted, svcVars,
                          scanTimerCancelled,
                          inFlightAtReset>>
    \/ Unmount
          /\ UNCHANGED <<retryVars, svcVars, scanTimerCancelled, inFlightAtReset>>


Spec == Init /\ [][Next]_vars

\* the timers of setTimeout expire as time passes
Fairness ==
    /\ WF_vars(Tick /\ UNCHANGED <<retryVars, mounted, svcVars,
                              scanTimerCancelled,
                          inFlightAtReset>>)
    /\ WF_vars(ScanTimerFire /\ UNCHANGED <<retryVars, mounted, svcVars,
                              scanTimerCancelled,
                          inFlightAtReset>>)
    /\ WF_vars(AnswerTimerFire /\ UNCHANGED <<retryVars, mounted, svcVars,
                              scanTimerCancelled,
                          inFlightAtReset>>)

SpecFair == Spec /\ Fairness

\* every call awaited by a handler settles
CallFairness ==
    /\ \A i \in 1..MaxInFlight :
          WF_vars(/\ \/ \E text \in Texts : ExtractResolve(i, text)
                     \/ \E f \in Failures : ExtractReject(i, f)
                  /\ UNCHANGED <<retryVars, mounted, svcVars,
                                 scanTimerCancelled,
                          inFlightAtReset>>)
    /\ \A i \in 1..MaxInFlight :
          WF_vars(/\ \/ \E answer \in Answers : AnswerResolve(i, answer)
                     \/ \E f \in Failures : AnswerReject(i, f)
                  /\ UNCHANGED <<retryVars, mounted, svcVars,
                                 scanTimerCancelled,
                          inFlightAtReset>>)

SpecLive == Spec /\ Fairness /\ CallFairness

\* the same steps, recording for every scan cooldown timer whether the call
\* whose finally block set it had been cancelled
TimerOriginNext ==
    IF ~mounted' THEN <<>>
    ELSE IF Len(scanTimers') > Len(scanTimers)
    THEN Append(scanTimerCancelled,
                extractCalls[CHOOSE i \in 1..Len(extractCalls) :
                                extractCalls' = RemoveAt(extractCalls, i)].cancelled)
    ELSE IF Len(scanTimers') < Len(scanTimers)
    THEN Tail(scanTimerCancelled)
    ELSE scanTimerCancelled

NextTimerOrigin ==
    \/ mounted /\ HandleScanFrame /\ UNCHANGED <<retryVars, mounted, svcVars>>
          /\ scanTimerCancelled' = TimerOriginNext
          /\ UNCHANGED inFlightAtReset
    \/ mounted /\ HandleCancelScan /\ UNCHANGED <<retryVars, mounted, svcVars>>
          /\ scanTimerCancelled' = TimerOriginNext
          /\ UNCHANGED inFlightAtReset
    \/ \E i \in 1..MaxInFlight, text \in Texts :
          ExtractResolve(i, text) /\ UNCHANGED <<retryVars, mounted, svcVars>>
          /\ scanTimerCancelled' = TimerOriginNext
          /\ UNCHANGED inFlightAtReset
    \/ \E i \in 1..MaxInFlight, f \in Failures :
          ExtractReject(i, f) /\ UNCHANGED <<retryVars, mounted, svcVars>>
          /\ scanTimerCancelled' = TimerOriginNext
          /\ UNCHANGED inFlightAtReset
    \/ ScanTimerFire /\ UNCHANGED <<retryVars, mounted, svcVars>>
          /\ scanTimerCancelled' = TimerOriginNext
          /\ UNCHANGED inFlightAtReset
    \/ mounted /\ HandleGetAnswer /\ UNCHANGED <<retryVars, mounted, svcVars>>
          /\ scanTimerCancelled' = TimerOriginNext
          /\ UNCHANGED inFlightAtReset
    \/ \E i \in 1..MaxInFlight, answer \in Answers :
          AnswerResolve(i, answer) /\ UNCHANGED <<retryVars, mounted, svcVars>>
          /\ scanTimerCancelled' = TimerOriginNext
          /\ UNCHANGED inFlightAtReset
    \/ \E i \in 1..MaxInFlight, f \in Failures :
          AnswerReject(i, f) /\ UNCHANGED <<retryVars, mounted, svcVars>>
          /\ scanTimerCancelled' = TimerOriginNext
          /\ UNCHANGED inFlightAtReset
    \/ AnswerTimerFire /\ UNCHANGED <<retryVars, mounted, svcVars>>
          /\ scanTimerCancelled' = TimerOriginNext
          /\ UNCHANGED inFlightAtReset
    \/ Tick /\ UNCHANGED <<retryVars, mounted, svcVars>>
          /\ scanTimerCancelled' = TimerOriginNext
          /\ UNCHANGED inFlightAtReset
    \/ mounted /\ HandleClearTexts /\ UNCHANGED <<retryVars, mounted, svcVars>>
          /\ scanTimerCancelled' = TimerOriginNext
          /\ UNCHANGED inFlightAtReset
    \/ mounted /\ HandleToggleCamera /\ UNCHANGED <<retryVars, mounted, svcVars>>
          /\ scanTimerCancelled' = TimerOriginNext
          /\ UNCHANGED inFlightAtReset
    \/ MediaResolve /\ UNCHANGED <<retryVars, mounted, svcVars>>
          /\ scanTimerCancelled' = TimerOriginNext
          /\ UNCHANGED inFlightAtReset
    \/ MediaReject /\ UNCHANGED <<retryVars, mounted, svcVars>>
          /\ scanTimerCancelled' = TimerOriginNext
          /\ UNCHANGED inFlightAtReset
    \/ Unmount /\ UNCHANGED <<retryVars, svcVars>>
          /\ scanTimerCancelled' = TimerOriginNext
          /\ UNCHANGED inFlightAtReset

SpecTimerOrigin == Init /\ [][NextTimerOrigin]_vars

\* the same steps, recording for every call in flight whether the texts were
\* cleared (handleClearTexts, directly or on turning the camera on) since the
\* call was issued
AllAtReset ==
    [extract |-> [i \in 1..Len(extractCalls) |-> TRUE],
     answer  |-> [i \in 1..Len(answerCalls) |-> TRUE]]

NextResetHistory ==
    \/ /\ mounted /\ HandleScanFrame
       /\ UNCHANGED <<retryVars, mounted, svcVars, scanTimerCancelled>>
       /\ inFlightAtReset' =
             IF Len(extractCalls') > Len(extractCalls)
             THEN [inFlightAtReset EXCEPT !.extract = Append(@, FALSE)]
             ELSE inFlightAtReset
    \/ /\ mounted /\ HandleCancelScan
       /\ UNCHANGED <<retryVars, mounted, svcVars, scanTimerCancelled>>
       /\ UNCHANGED inFlightAtReset
    \/ \E i \in 1..MaxInFlight, text \in Texts :
          /\ ExtractResolve(i, text)
          /\ UNCHANGED <<retryVars, mounted, svcVars, scanTimerCancelled>>
          /\ inFlightAtReset' = [inFlightAtReset EXCEPT !.extract = RemoveAt(@, i)]
    \/ \E i \in 1..MaxInFlight, f \in Failures :
          /\ ExtractReject(i, f)
          /\ UNCHANGED <<retryVars, mounted, svcVars, scanTimerCancelled>>
          /\ inFlightAtReset' = [inFlightAtReset EXCEPT !.extract = RemoveAt(@, i)]
    \/ /\ ScanTimerFire
       /\ UNCHANGED <<retryVars, mounted, svcVars, scanTimerCancelled>>
       /\ UNCHANGED inFlightAtReset
    \/ /\ mounted /\ HandleGetAnswer
       /\ UNCHANGED <<retryVars, mounted, svcVars, scanTimerCancelled>>
       /\ inFlightAtReset' =
             IF Len(answerCalls') > Len(answerCalls)
             THEN [inFlightAtReset EXCEPT !.answer = Append(@, FALSE)]
             ELSE inFlightAtReset
    \/ \E i \in 1..MaxInFlight, answer \in Answers :
          /\ AnswerResolve(i, answer)
          /\ UNCHANGED <<retryVars, mounted, svcVars, scanTimerCancelled>>
          /\ inFlightAtReset' = [inFlightAtReset EXCEPT !.answer = RemoveAt(@, i)]
    \/ \E i \in 1..MaxInFlight, f \in Failures :
          /\ AnswerReject(i, f)
          /\ UNCHANGED <<retryVars, mounted, svcVars, scanTimerCancelled>>
          /\ inFlightAtReset' = [inFlightAtReset EXCEPT !.answer = RemoveAt(@, i)]
    \/ /\ AnswerTimerFire
       /\ UNCHANGED <<retryVars, mounted, svcVars, scanTimerCancelled>>
       /\ UNCHANGED inFlightAtReset
    \/ /\ Tick
       /\ UNCHANGED <<retryVars, mounted, svcVars, scanTimerCancelled>>
       /\ UNCHANGED inFlightAtReset
    \/ /\ mounted /\ HandleClearTexts
       /\ UNCHANGED <<retryVars, mounted, svcVars, scanTimerCancelled>>
       /\ inFlightAtReset' = AllAtReset
    \/ /\ mounted /\ HandleToggleCamera
       /\ UNCHANGED <<retryVars, mounted, svcVars, scanTimerCancelled>>
       /\ inFlightAtReset' = IF isCameraActive THEN inFlightAtReset ELSE AllAtReset
    \/ /\ MediaResolve
       /\ UNCHANGED <<retryVars, mounted, svcVars, scanTimerCancelled>>
       /\ UNCHANGED inFlightAtReset
    \/ /\ MediaReject
       /\ UNCHANGED <<retryVars, mounted, svcVars, scanTimerCancelled>>
       /\ UNCHANGED inFlightAtReset
    \/ /\ Unmount /\ UNCHANGED <<retryVars, svcVars, scanTimerCancelled>>
       /\ inFlightAtReset' = NoneInFlightAtReset

SpecResetHistory == Init /\ [][NextResetHistory]_vars

\* callGeminiWithRetry alone, for every maxRetries and initialDelay
InitialDelays == {DefaultInitialDelay, 1}

InitRetry ==
    /\ InitApp
    /\ scanTimerCancelled = <<>>
    /\ inFlightAtReset = NoneInFlightAtReset
    /\ ServiceIdle
    /\ \E maxRetries \in 0..MaxRetriesArg, initialDelay \in InitialDelays :
          RetryStart(maxRetries, initialDelay)

NextRetry ==
    \/ RetryAttemptOk
          /\ UNCHANGED <<appVars, mounted, svcVars, scanTimerCancelled, inFlightAtReset>>
    \/ \E e \in ApiErrors(rAttempt + 1) : RetryAttemptFail(e)
          /\ UNCHANGED <<appVars, mounted, svcVars, scanTimerCancelled, inFlightAtReset>>
    \/ RetryBackoffElapsed
          /\ UNCHANGED <<appVars, mounted, svcVars, scanTimerCancelled, inFlightAtReset>>

SpecRetry == InitRetry /\ [][NextRetry]_vars

\* the module geminiService: configuration and the two exported functions
NextService ==
    \/ \E apiKey \in ApiKeys :
          InitializeApi(apiKey)
             /\ UNCHANGED <<appVars, mounted, scanTimerCancelled, inFlightAtReset>>
    \/ \E fn \in {"extract", "answer"} :
          ServiceCall(fn)
             /\ UNCHANGED <<appVars, mounted, scanTimerCancelled, inFlightAtReset>>
    \/ svcCall # "none" /\ ServiceAttempt
         
            /\ UNCHANGED <<appVars, mounted, svcVars, scanTimerCancelled, inFlightAtReset>>
    \/ svcCall # "none" /\ RetryBackoffElapsed
         
            /\ UNCHANGED <<appVars, mounted, svcVars, scanTimerCancelled, inFlightAtReset>>
    \/ ServiceSettled
          /\ UNCHANGED <<appVars, mounted, scanTimerCancelled, inFlightAtReset>>

SpecService == Init /\ [][NextService]_vars

\* ================================================================ claims
\* a step in which the i-th awaited extraction call completes
CompletesCall(i) ==
    /\ i \in 1..Len(extractCalls)
    /\ extractCalls' = RemoveAt(extractCalls, i)
    /\ mounted'

\* handleScanFrame / handleGetAnswer, called now, passes its guard
ScanAccepted == ~ScanFrameRejected

AnswerAccepted == ~GetAnswerRejected

\* C1: the completion of an extraction call whose scan was cancelled leaves
\* the transcript as it is, whatever happened since the cancellation.
C1_CancelledNeverAppends ==
    [][\A i \in 1..Len(extractCalls) :
          (CompletesCall(i) /\ extractCalls[i].cancelled)
              => scannedTexts' = scannedTexts]_vars

\* C2: at most one extractTextFromImage call is in flight.
C2_OneExtractionInFlight == Len(extractCalls) <= 1

\* C3: the completion of a cancelled scan neither activates the scan
\* cooldown nor schedules a cooldown timer.
C3_CancelledNoCooldown ==
    [][\A i \in 1..Len(extractCalls) :
          (CompletesCall(i) /\ extractCalls[i].cancelled)
              => /\ scanTimers' = scanTimers
                 /\ isCoolingDown' => isCoolingDown]_vars

\* C4: while a cooldown window that was started has time left, the flag of
\* its coordinator is active (so the trigger of that coordinator is rejected).
C4_CooldownNotShortened ==
    /\ \A i \in 1..Len(scanTimers) :
          scanTimers[i] > 0 => (isCoolingDown /\ ScanFrameRejected)
    /\ \A i \in 1..Len(answerTimers) :
          answerTimers[i] > 0 => (isAnswerCoolingDown /\ GetAnswerRejected)

\* C5: a completion appends trim(text) exactly when its scan was not
\* cancelled and the trimmed text is not empty, at the end of the transcript,
\* and changes the transcript in no other way.
C5_TranscriptIsCompletionLog ==
    [][\A i \in 1..Len(extractCalls), text \in Texts :
          ExtractResolve(i, text)
              => scannedTexts' =
                    IF ~extractCalls[i].cancelled /\ Trim(text) # <<>>
                    THEN Append(scannedTexts, Trim(text))
                    ELSE scannedTexts]_vars

\* C6: every element of the transcript is a non-empty string equal to its
\* own trim, and an extraction that returns an empty or whitespace-only
\* string appends nothing and records no error.
IsBlank(text) == \A k \in 1..Len(text) : IsSpace(text[k])

C6_NoBlankInTranscript ==
    /\ [](\A k \in 1..Len(scannedTexts) :
             /\ scannedTexts[k] # <<>>
             /\ ~IsSpace(scannedTexts[k][1])
             /\ ~IsSpace(scannedTexts[k][Len(scannedTexts[k])]))
    /\ [][\A i \in 1..Len(extractCalls), text \in Texts :
             (ExtractResolve(i, text) /\ IsBlank(text))
                 => (scannedTexts' = scannedTexts /\ error' = error)]_vars

C6_Witness ==
    /\ Len(scannedTexts) = 2
    /\ scannedTexts[1] = <<"a", " ", "b">>
    /\ scannedTexts[2] = <<"a">>
    /\ error = NoError

\* C7: at most one getAnswerFromText call is in flight, and isGettingAnswer
\* is true exactly while that call is in flight.
C7_OneAnswerInFlight ==
    /\ Len(answerCalls) <= 1
    /\ isGettingAnswer <=> Len(answerCalls) = 1

C7_Witness ==
    /\ Len(answerCalls) = 1
    /\ Len(extractCalls) = 1
    /\ isScanning
    /\ isGettingAnswer

\* C8 as stated: with a non-empty transcript and no answer in flight,
\* requestAnswer is accepted while the scan cooldown is active; with the
\* camera active and no scan in flight, triggerScan is accepted while the
\* answer cooldown is active.
C8_AcceptedDuringOtherCooldown ==
    /\ (Len(scannedTexts) > 0 /\ Len(answerCalls) = 0 /\ isCoolingDown)
          => AnswerAccepted
    /\ (isCameraActive /\ Len(extractCalls) = 0 /\ isAnswerCoolingDown)
          => ScanAccepted

\* C8 amended: the same, provided the coordinator's own cooldown is not
\* active; and a step of the mounted component that changes one cooldown flag
\* leaves the other.
C8_CooldownsIndependent ==
    /\ []((Len(scannedTexts) > 0 /\ Len(answerCalls) = 0
              /\ ~isAnswerCoolingDown /\ isCoolingDown) => AnswerAccepted)
    /\ []((isCameraActive /\ Len(extractCalls) = 0
              /\ ~isCoolingDown /\ isAnswerCoolingDown) => ScanAccepted)
    /\ [][(mounted' /\ isCoolingDown' # isCoolingDown)
              => (isAnswerCoolingDown' = isAnswerCoolingDown)]_vars

C8_Witness ==
    /\ isCoolingDown
    /\ scanTimers = <<CooldownScan>>
    /\ ~isAnswerCoolingDown
    /\ isGettingAnswer
    /\ Len(answerCalls) = 1

\* C9: a successful attempt k+1 (0 <= k <= maxRetries) follows k attempts
\* that failed with rate-limit errors, is the last attempt, and makes the
\* wrapper return its response, having waited initialDelay * 2^0 ..
\* initialDelay * 2^(k-1) in that order.
C9_RetrySucceedsAfterRateLimits ==
    \A j \in 1..Len(rLog) :
        rLog[j].ok
        => /\ j = Len(rLog)
           /\ j <= rMaxRetries + 1
           /\ \A i \in 1..(j - 1) : ~rLog[i].ok /\ IsRateLimitError(rLog[i])
           /\ rPc = "returned"
           /\ rResult = rLog[j]
           /\ rDelays = [i \in 1..(j - 1) |-> rInitialDelay * (2 ^ (i - 1))]

C9_Witness ==
    /\ rPc = "returned"
    /\ rMaxRetries = DefaultMaxRetries
    /\ Len(rLog) = 3
    /\ rResult = rLog[3]
    /\ rDelays = <<2000, 4000>>

\* C10: an attempt that fails with an error whose message contains
\* 'API key not valid' is the last attempt: the wrapper throws that error
\* and has set no backoff timer for it.
C10_InvalidKeyNotRetried ==
    \A j \in 1..Len(rLog) :
        (~rLog[j].ok /\ IsInvalidKeyError(rLog[j]))
        => /\ j = Len(rLog)
           /\ rPc = "thrown"
           /\ rResult = rLog[j]
           /\ Len(rDelays) = j - 1

C10_Witness ==
    /\ rPc = "thrown"
    /\ Len(rLog) = 2
    /\ IsInvalidKeyError(rLog[2])
    /\ IsRateLimitError(rLog[2])
    /\ rResult = rLog[2]

\* C11: the wrapper makes at most maxRetries + 1 attempts and is never stuck
\* before it has returned or thrown; when maxRetries + 1 attempts have all
\* failed with rate-limit errors it has thrown the error of the last attempt
\* (never the generic 'failed after all retries' error), and it has set
\* maxRetries backoff timers, none after the last attempt.
RetryDone == rPc \in {"returned", "thrown"}

C11_RetryTerminatesWithLastError ==
    /\ Len(rLog) <= rMaxRetries + 1
    /\ rAttempt <= rMaxRetries
    /\ RetryDone \/ ENABLED NextRetry
    /\ rResult # ErrAfterAllRetries
    /\ (/\ Len(rLog) = rMaxRetries + 1
        /\ \A j \in 1..Len(rLog) : ~rLog[j].ok /\ IsRateLimitError(rLog[j]))
       => /\ rPc = "thrown"
          /\ rResult = rLog[Len(rLog)]
          /\ Len(rDelays) = rMaxRetries

C11_Witness ==
    /\ rPc = "thrown"
    /\ rMaxRetries = DefaultMaxRetries
    /\ Len(rLog) = 3
    /\ \A j \in 1..3 : IsRateLimitError(rLog[j]) /\ ~IsInvalidKeyError(rLog[j])
    /\ rResult = rLog[3]
    /\ rDelays = <<2000, 4000>>

\* C12: an attempt that fails with an error that is neither rate-limit nor
\* invalid-key classified (an error without a message included) is the last
\* attempt, whatever its number: the wrapper throws that error and sets no
\* backoff timer for it.
C12_OtherErrorNotRetried ==
    \A j \in 1..Len(rLog) :
        (~rLog[j].ok /\ ~IsRateLimitError(rLog[j]) /\ ~IsInvalidKeyError(rLog[j]))
        => /\ j = Len(rLog)
           /\ rPc = "thrown"
           /\ rResult = rLog[j]
           /\ Len(rDelays) = j - 1

C12_Witness ==
    /\ rPc = "thrown"
    /\ Len(rLog) = 2
    /\ ~rLog[2].hasMessage
    /\ rResult = rLog[2]
    /\ Len(rDelays) = 1

\* C13: the question passed to getAnswerFromText by an accepted request is the
\* transcript of that moment joined with exactly one space between consecutive
\* elements: its length is the sum of the elements' lengths plus one per gap,
\* every element sits unchanged at its offset, and every gap is one space.
RECURSIVE OffsetOf(_, _)
OffsetOf(ts, k) ==
    IF k = 1 THEN 0 ELSE OffsetOf(ts, k - 1) + Len(ts[k - 1]) + 1

IsSpaceJoin(q, ts) ==
    IF ts = <<>> THEN q = <<>>
    ELSE /\ Len(q) = OffsetOf(ts, Len(ts)) + Len(ts[Len(ts)])
         /\ \A k \in 1..Len(ts) :
               /\ SubSeq(q, OffsetOf(ts, k) + 1, OffsetOf(ts, k) + Len(ts[k])) = ts[k]
               /\ k > 1 => q[OffsetOf(ts, k)] = " "

C13_QuestionIsSpaceJoin ==
    [][Len(answerCalls') = Len(answerCalls) + 1
       => IsSpaceJoin(answerCalls'[Len(answerCalls')].question, scannedTexts)]_vars

C13_Witness ==
    /\ scannedTexts = << <<"a">>, <<"a", " ", "b">> >>
    /\ Len(answerCalls) = 1
    /\ answerCalls[1].question = <<"a", " ", "a", " ", "b">>

\* C14: stopCamera is idempotent and total. Every step that runs it (turning
\* the camera off, unmounting) leaves no stream held and no frame source, and
\* stops exactly the stream that was held; run in a state where nothing is
\* held it changes neither the refs nor any track; applied to its own result
\* it returns that result and stops nothing; and it can run in every state of
\* the mounted component.
StopCameraStep == (isCameraActive /\ HandleToggleCamera) \/ Unmount

C14_StopCameraIdempotent ==
    /\ [](LET once  == StopCamera(streamRef, videoSrc, VideoMounted)
              twice == StopCamera(once.streamRef, once.videoSrc, VideoMounted)
          IN  /\ once.streamRef = FALSE
              /\ once.videoSrc = FALSE
              /\ twice.streamRef = once.streamRef
              /\ twice.videoSrc = once.videoSrc
              /\ twice.stopped = 0)
    /\ [](mounted => ENABLED Unmount)
    /\ [][StopCameraStep
          => /\ ~streamRef'
             /\ ~videoSrc'
             /\ LiveStreams' = LiveStreams - (IF streamRef THEN 1 ELSE 0)
             /\ (~streamRef /\ ~videoSrc)
                => UNCHANGED <<streamRef, videoSrc, leakedStreams>>]_vars

C14_Witness ==
    /\ ~mounted
    /\ ~streamRef
    /\ ~videoSrc
    /\ LiveStreams = 0
    /\ pendingMedia = 0

\* C15: at most one acquired stream has live tracks, and when the camera is
\* not active and no getUserMedia request is pending, no acquired stream has
\* live tracks.
C15_OneLiveStreamNoneWhenInactive ==
    /\ LiveStreams <= 1
    /\ (~isCameraActive /\ pendingMedia = 0) => LiveStreams = 0

\* C16: when getUserMedia rejects in the mounted component, startCamera leaves
\* the camera inactive, no stream held and no frame source, and the camera
\* message is the error held.
C16_FailedAcquisitionLeavesInactive ==
    [][(MediaReject /\ mounted)
       => /\ ~isCameraActive'
          /\ ~streamRef'
          /\ ~videoSrc'
          /\ error' = ErrCamera]_vars

\* C17: extractTextFromImage and getAnswerFromText called while initializeApi
\* was never called or was last called with an empty key throw the 'API not
\* initialized' error without any apiCall() and without a backoff timer; and
\* initializeApi called with an empty key reports an invalid-credential
\* failure to its caller.
Unconfigured == initCall = NoInitCall \/ initCall.apiKey = ""

C17_UnconfiguredFailsEmptyKeyReported ==
    [][/\ \A fn \in {"extract", "answer"} :
             (ServiceCall(fn) /\ Unconfigured)
             => /\ rPc' = "thrown"
                /\ rResult' = ErrNotInitialized
                /\ rLog' = <<>>
                /\ rDelays' = <<>>
       /\ InitializeApi("") => initCall'.outcome = "InvalidCredential"]_vars

\* C18: the step in which an accepted answer request settles, by a response
\* or by a failure, sets isGettingAnswer false and starts the answer cooldown
\* with its timer; the coordinator is never busy and cooling down at once, a
\* cooldown always has its one timer pending, the step that ends a cooldown
\* leaves the coordinator idle, and every cooldown eventually ends.
AnswerSettles(i) ==
    /\ i \in 1..Len(answerCalls)
    /\ answerCalls' = RemoveAt(answerCalls, i)
    /\ mounted'

C18_AnswerAlwaysCoolsDownThenIdle ==
    /\ [](~(isGettingAnswer /\ isAnswerCoolingDown))
    /\ [](isGettingAnswer <=> Len(answerCalls) = 1)
    /\ [](isAnswerCoolingDown <=> Len(answerTimers) = 1)
    /\ [](Len(answerCalls) <= 1 /\ Len(answerTimers) <= 1)
    /\ [][\A i \in 1..Len(answerCalls) :
             AnswerSettles(i)
             => /\ isGettingAnswer /\ ~isGettingAnswer'
                /\ ~isAnswerCoolingDown /\ isAnswerCoolingDown'
                /\ answerTimers' = <<CooldownAnswer>>]_vars
    /\ [][(isAnswerCoolingDown /\ ~isAnswerCoolingDown')
          => ~isGettingAnswer' /\ answerCalls' = <<>> /\ answerTimers' = <<>>]_vars
    /\ (isAnswerCoolingDown ~> ~isAnswerCoolingDown)

C18_Witness ==
    /\ error = ErrAnswerFailed
    /\ ~isGettingAnswer
    /\ isAnswerCoolingDown
    /\ answerCalls = <<>>
    /\ answerTimers = <<CooldownAnswer>>

\* C19: the step in which an extraction call that was not cancelled fails
\* holds the busy message as the error when the failure is an Error whose
\* message contains '429' or 'RESOURCE_EXHAUSTED' and the generic extraction
\* message otherwise, leaves the transcript unchanged and starts the scan
\* cooldown with its timer; and every failure of every call in flight is
\* taken by the catch block of handleScanFrame.
C19_ExtractionFailureHandled ==
    /\ [](\A i \in 1..Len(extractCalls), f \in Failures :
             ENABLED ExtractReject(i, f))
    /\ [][\A i \in 1..Len(extractCalls), f \in Failures :
             (ExtractReject(i, f) /\ ~extractCalls[i].cancelled /\ mounted')
             => /\ error' = IF f.isError /\ (f.has429 \/ f.hasExhausted)
                            THEN ErrScanBusy
                            ELSE ErrExtractFailed
                /\ scannedTexts' = scannedTexts
                /\ isCoolingDown'
                /\ scanTimers' = Append(scanTimers, CooldownScan)]_vars

C19_Witness ==
    /\ error = ErrScanBusy
    /\ ~cancelScanRef
    /\ extractCalls = <<>>
    /\ isCoolingDown
    /\ scanTimers = <<CooldownScan>>
    /\ Len(scannedTexts) = 1

\* C20: an error held as the outcome of the Answer Coordinator is left as it
\* is by every step of the Scan Coordinator (handleScanFrame, handleCancelScan
\* and the completions of extraction calls), an error held as the outcome of
\* the Scan Coordinator is left as it is by every step of the Answer
\* Coordinator (handleGetAnswer and the completions of answer calls), and a
\* failure of one coordinator's call leaves the other's busy and cooldown
\* flags unchanged.
AnswerErrors == {ErrAnswerFailed, ErrAnswerBusy}

ScanErrors == {ErrExtractFailed, ErrScanBusy}

ScanCoordinatorStep ==
    /\ mounted'
    /\ \/ HandleScanFrame
       \/ HandleCancelScan
       \/ \E i \in 1..Len(extractCalls), text \in Texts : ExtractResolve(i, text)
       \/ \E i \in 1..Len(extractCalls), f \in Failures : ExtractReject(i, f)

AnswerCoordinatorStep ==
    /\ mounted'
    /\ \/ HandleGetAnswer
       \/ \E i \in 1..Len(answerCalls), answer \in Answers : AnswerResolve(i, answer)
       \/ \E i \in 1..Len(answerCalls), f \in Failures : AnswerReject(i, f)

C20_FlagsUntouchedByOtherErrors ==
    /\ (\E i \in 1..Len(extractCalls), f \in Failures : ExtractReject(i, f))
       => UNCHANGED <<isGettingAnswer, isAnswerCoolingDown>>
    /\ (\E i \in 1..Len(answerCalls), f \in Failures : AnswerReject(i, f))
       => UNCHANGED <<isScanning, isCoolingDown>>

C20_ErrorsIsolatedBetweenCoordinators ==
    [][/\ (error \in AnswerErrors /\ ScanCoordinatorStep) => error' = error
       /\ (error \in ScanErrors /\ AnswerCoordinatorStep) => error' = error
       /\ C20_FlagsUntouchedByOtherErrors]_vars

\* C21: the failure of an extraction call whose scan was cancelled leaves the
\* held error as it is, whatever was invoked since the cancellation.
C21_CancelledNeverSetsError ==
    [][\A i \in 1..Len(extractCalls), f \in Failures :
          (ExtractReject(i, f) /\ extractCalls[i].cancelled /\ mounted')
              => error' = error]_vars

\* C22: handleClearTexts can run in every state of the mounted component; its
\* step leaves the transcript empty and no error held, and leaves isScanning,
\* isCoolingDown, isGettingAnswer, isAnswerCoolingDown, the cancel flag, the
\* pending cooldown timers and the calls in flight unchanged.
C22_ClearTextsFrame ==
    /\ [](mounted => ENABLED HandleClearTexts)
    /\ [][HandleClearTexts
          => /\ scannedTexts' = <<>>
             /\ error' = NoError
             /\ UNCHANGED <<isScanning, isCoolingDown, isGettingAnswer,
                            isAnswerCoolingDown, cancelScanRef, scanTimers,
                            answerTimers, extractCalls, answerCalls>>]_vars

C22_Witness ==
    /\ scannedTexts = <<>>
    /\ error = NoError
    /\ isCameraActive
    /\ isCoolingDown
    /\ Len(scanTimers) = 1
    /\ isGettingAnswer
    /\ Len(answerCalls) = 1
    /\ answerCalls[1].question # <<>>

\* C23: handleScanFrame called while a scan is in progress, while the scan
\* cooldown is active or while the camera is not active returns at its guard:
\* it can be called, and its step starts no extraction call and leaves the
\* transcript, the held error, the cancel flag, isScanning and isCoolingDown
\* unchanged.
ScanIsGuarded == isScanning \/ isCoolingDown \/ ~isCameraActive

C23_GuardedScanIsNoOp ==
    /\ [](ScanIsGuarded => (ScanFrameRejected /\ ENABLED HandleScanFrame))
    /\ [][(ScanIsGuarded /\ HandleScanFrame)
          => UNCHANGED <<extractCalls, scannedTexts, error, cancelScanRef,
                         isScanning, isCoolingDown>>]_vars

C23_Witness ==
    /\ mounted
    /\ isCameraActive
    /\ isCoolingDown
    /\ ~isScanning
    /\ extractCalls = <<>>
    /\ Len(scannedTexts) = 1

\* C24: handleGetAnswer called while the transcript is empty, while an answer
\* is in flight or while the answer cooldown is active returns at its guard:
\* it can be called, and its step starts no answer call and leaves
\* apiResponse, the held error, isGettingAnswer and isAnswerCoolingDown
\* unchanged.
AnswerIsGuarded ==
    Len(scannedTexts) = 0 \/ isGettingAnswer \/ isAnswerCoolingDown

C24_GuardedAnswerIsNoOp ==
    /\ [](AnswerIsGuarded => (GetAnswerRejected /\ ENABLED HandleGetAnswer))
    /\ [][(AnswerIsGuarded /\ HandleGetAnswer)
          => UNCHANGED <<answerCalls, apiResponse, error, isGettingAnswer,
                         isAnswerCoolingDown>>]_vars

C24_Witness ==
    /\ mounted
    /\ scannedTexts = <<>>
    /\ apiResponse = "42"
    /\ isAnswerCoolingDown
    /\ ~isGettingAnswer
    /\ answerCalls = <<>>

\* C25: the completion of an extraction call that was not cancelled ends the
\* scan and activates the scan cooldown in one step, and from then until the
\* timer set by that completion is due the coordinator is scanning or cooling
\* down.
C25_CooldownUntilOwnExpiry ==
    /\ [][\A i \in 1..Len(extractCalls) :
             (CompletesCall(i) /\ ~extractCalls[i].cancelled)
                 => ~isScanning' /\ isCoolingDown']_vars
    /\ [](\A k \in 1..Len(scanTimers) :
             (~scanTimerCancelled[k] /\ scanTimers[k] > 0)
                 => (isScanning \/ isCoolingDown))

\* C26: isCameraActive is true only while a stream is held, and a
\* handleScanFrame step that issues an extraction call is taken only when a
\* stream is held and is the frame source of the video element.
C26_ActiveOnlyWithStream ==
    /\ [](isCameraActive => streamRef)
    /\ [][Len(extractCalls') = Len(extractCalls) + 1
          => (streamRef /\ videoSrc)]_vars

\* C27: turning the camera off stops the capture session and leaves the cancel
\* flag, isScanning and the calls in flight as they are; and the completion,
\* with the camera off, of a call that was not cancelled is applied as with
\* the camera on: a text that is not blank is appended trimmed, a failure sets
\* the error of the scan, and the scan cooldown starts with its timer.
C27_CameraOffDoesNotCancel ==
    /\ [][(isCameraActive /\ HandleToggleCamera)
          => /\ ~isCameraActive' /\ ~streamRef' /\ ~videoSrc'
             /\ UNCHANGED <<cancelScanRef, isScanning, extractCalls>>]_vars
    /\ [][\A i \in 1..Len(extractCalls), text \in Texts :
             (/\ ExtractResolve(i, text)
              /\ ~isCameraActive /\ ~extractCalls[i].cancelled /\ mounted')
             => /\ scannedTexts' = IF Trim(text) # <<>>
                                   THEN Append(scannedTexts, Trim(text))
                                   ELSE scannedTexts
                /\ isCoolingDown'
                /\ scanTimers' = Append(scanTimers, CooldownScan)]_vars
    /\ [][\A i \in 1..Len(extractCalls), f \in Failures :
             (/\ ExtractReject(i, f)
              /\ ~isCameraActive /\ ~extractCalls[i].cancelled /\ mounted')
             => /\ error' \in {ErrExtractFailed, ErrScanBusy}
                /\ isCoolingDown'
                /\ scanTimers' = Append(scanTimers, CooldownScan)]_vars

C27_Witness ==
    /\ mounted
    /\ ~isCameraActive
    /\ ~streamRef
    /\ pendingMedia = 0
    /\ error = NoError
    /\ isScanning
    /\ ~cancelScanRef
    /\ extractCalls = <<[cancelled |-> FALSE]>>

\* C28: when every call settles and every timer fires, a Scan Coordinator
\* that is scanning or cooling down is eventually idle (isScanning and
\* isCoolingDown both false), whatever else is invoked meanwhile.
C28_ScanEventuallyIdle ==
    (isScanning \/ isCoolingDown) ~> (~isScanning /\ ~isCoolingDown)

C28_Witness ==
    /\ mounted
    /\ isCameraActive
    /\ Len(scannedTexts) = 1
    /\ ~isScanning
    /\ ~isCoolingDown
    /\ extractCalls = <<>>
    /\ scanTimers = <<>>

\* C29: apiResponse is empty in every state with an answer call in flight;
\* the step in which the call resolves sets apiResponse to the text returned
\* and leaves the error; the step in which it rejects leaves apiResponse empty
\* and holds the busy message as the error when the failure is an Error whose
\* message contains '429' or 'RESOURCE_EXHAUSTED' and the generic answer
\* message otherwise.
C29_AnswerResultLifecycle ==
    /\ [](Len(answerCalls) > 0 => apiResponse = "")
    /\ [][\A i \in 1..Len(answerCalls), answer \in Answers :
             (AnswerResolve(i, answer) /\ mounted')
             => apiResponse' = answer /\ error' = error]_vars
    /\ [][\A i \in 1..Len(answerCalls), f \in Failures :
             (AnswerReject(i, f) /\ mounted')
             => /\ apiResponse' = ""
                /\ error' = IF f.isError /\ (f.has429 \/ f.hasExhausted)
                            THEN ErrAnswerBusy
                            ELSE ErrAnswerFailed]_vars

C29_Witness ==
    /\ mounted
    /\ apiResponse = "42"
    /\ error = NoError
    /\ answerCalls = <<>>
    /\ ~isGettingAnswer
    /\ answerTimers = <<CooldownAnswer>>

\* C30: while an extraction call whose scan was not cancelled is in flight,
\* isScanning is true.
C30_ApplicableCallImpliesScanning ==
    \A i \in 1..Len(extractCalls) : ~extractCalls[i].cancelled => isScanning

\* C31: the completion of an extraction call that was in flight when the texts
\* were cleared leaves the transcript as it is, and the completion of an
\* answer call that was in flight when the texts were cleared leaves
\* apiResponse as it is.
C31_StaleCompletionsIgnored ==
    /\ [][\A i \in 1..Len(extractCalls), text \in Texts :
             (ExtractResolve(i, text) /\ inFlightAtReset.extract[i] /\ mounted')
             => scannedTexts' = scannedTexts]_vars
    /\ [][\A i \in 1..Len(answerCalls), answer \in Answers :
             (AnswerResolve(i, answer) /\ inFlightAtReset.answer[i] /\ mounted')
             => apiResponse' = apiResponse]_vars

====
